---- MODULE Spec2Model ----
(***************************************************************************)
(* Model of load_libpyopenocd.py: the ScanField value container and the    *)
(* PyOpenOCD wrapper around the native libpyopenocd library.               *)
(*                                                                         *)
(* Python objects are records, bytes objects are sequences of 0..255,      *)
(* str objects are sequences of code points.  A Python call that raises    *)
(* is modelled by a result record whose "raised" field names the exception *)
(* type.  The native library is reached only through ctypes; its side of   *)
(* the boundary (the lib_* operators and the variable lib) follows the     *)
(* external-interface contract of the design document.                     *)
(***************************************************************************)
EXTENDS Integers, Sequences, FiniteSets, TLC

VARIABLES
    fields,     \* ScanField objects alive in the caller: slot -> object
    lib,        \* state of the native library behind the ctypes boundary
    ret,        \* outcome of the last Python-level operation
    ffi,        \* foreign calls made by the last Python-level operation
    enqueued,   \* history: add_irscan/add_drscan calls since the last execute_queue
    captured    \* history: integer last shifted into each field by the library

vars == <<fields, lib, ret, ffi, enqueued, captured>>

(***************************************************************************)
(* Bounds of the model.                                                    *)
(***************************************************************************)
MaxQueue == 2       \* longest pending sequence explored
MaxCloses == 2      \* close() calls explored
MaxBits == 9        \* widest field of the ScanField value specification

(***************************************************************************)
(* Program constants.                                                      *)
(***************************************************************************)
TAP_DREXIT2 == 0
TAP_DREXIT1 == 1
TAP_DRSHIFT == 2
TAP_DRPAUSE == 3
TAP_IRSELECT == 4
TAP_DRUPDATE == 5
TAP_DRCAPTURE == 6
TAP_DRSELECT == 7
TAP_IREXIT2 == 8
TAP_IREXIT1 == 9
TAP_IRSHIFT == 10
TAP_IRPAUSE == 11
TAP_IDLE == 12
TAP_IRUPDATE == 13
TAP_IRCAPTURE == 14
TAP_RESET == 15

\* the members of TAPState that name a state of the TAP controller
TAPState ==
    {TAP_DREXIT2, TAP_DREXIT1, TAP_DRSHIFT, TAP_DRPAUSE, TAP_IRSELECT,
     TAP_DRUPDATE, TAP_DRCAPTURE, TAP_DRSELECT, TAP_IREXIT2, TAP_IREXIT1,
     TAP_IRSHIFT, TAP_IRPAUSE, TAP_IDLE, TAP_IRUPDATE, TAP_IRCAPTURE, TAP_RESET}

\* a call that leaves the end_state keyword out
Omitted == 0 - 2

NULL == 0
NoCapture == 0 - 1

\* slots for the caller's ScanField objects; DOMAIN fields are the live ones
FieldIds == {1, 2}

\* 2^n and 256^n for the small n the model uses
RECURSIVE Pow(_, _)
Pow(b, n) == IF n <= 0 THEN 1 ELSE b * Pow(b, n - 1)

Max(a, b) == IF a >= b THEN a ELSE b

(***************************************************************************)
(* Python builtins used by ScanField.                                      *)
(***************************************************************************)

\* val // div, Python floor division
div_round_up(val, div) == (val + (div - 1)) \div div

\* bytes(n): n zero bytes, ValueError for a negative count
bytes_new(n) ==
    IF n < 0 THEN [raised |-> "ValueError", val |-> <<>>]
    ELSE [raised |-> "none", val |-> [i \in 1..n |-> 0]]

\* whether the unsigned integer v needs more than n bytes
TooBig(v, n) == IF n = 0 THEN v > 0 ELSE (v \div Pow(256, n - 1)) >= 256

\* a big-endian packing, the byte order a wrong byteorder argument would give
to_bytes_big(v, n) ==
    IF v < 0 \/ TooBig(v, n) THEN [raised |-> "OverflowError", val |-> <<>>]
    ELSE [raised |-> "none",
          val |-> [i \in 1..n |-> (v \div Pow(256, n - i)) % 256]]

\* v.to_bytes(n, byteorder="little")
to_bytes(v, n) ==
    IF v < 0 \/ TooBig(v, n) THEN [raised |-> "OverflowError", val |-> <<>>]
    ELSE [raised |-> "none",
          val |-> [i \in 1..n |-> (v \div Pow(256, i - 1)) % 256]]

\* int.from_bytes(b, byteorder="little")
RECURSIVE from_bytes(_)
from_bytes(b) ==
    IF b = <<>> THEN 0 ELSE b[1] + 256 * from_bytes(Tail(b))

(***************************************************************************)
(* ScanField.                                                              *)
(***************************************************************************)

\* a setter that stores the bytes in both buffers
set_out_value_both(o, v) ==
    LET r == to_bytes(v, o._bytelen)
    IN  IF r.raised # "none" THEN [raised |-> r.raised, obj |-> o]
        ELSE [raised |-> "none",
              obj |-> [o EXCEPT !._out_buf = r.val, !._in_buf = r.val]]

\* the out_value setter on object o: the new object, or the exception
set_out_value(o, v) ==
    LET r == to_bytes(v, o._bytelen)
    IN  IF r.raised # "none" THEN [raised |-> r.raised, obj |-> o]
        ELSE [raised |-> "none", obj |-> [o EXCEPT !._out_buf = r.val]]

\* a constructor that lets _in_buf and _out_buf name the same bytes object
ScanField_init_shared(bitlen, init_value) ==
    LET bytelen == div_round_up(bitlen, 8)
        b == bytes_new(bytelen)
        o == [_bitlen |-> bitlen, _bytelen |-> bytelen,
              _in_buf |-> b.val, _out_buf |-> b.val]
        r == IF init_value = <<>> THEN [raised |-> "none", obj |-> o]
             ELSE set_out_value(o, init_value[1])
    IN  IF b.raised # "none" THEN [raised |-> b.raised, obj |-> o]
        ELSE [r EXCEPT !.obj._in_buf = r.obj._out_buf]

\* ScanField(bitlen, out_value): the constructed object, or the exception
\* that leaves the constructor before an object is returned.  The out_value
\* argument is init_value: <<>> for the default None, <<v>> for an integer v.
ScanField_init(bitlen, init_value) ==
    LET bytelen == div_round_up(bitlen, 8)
        b == bytes_new(bytelen)
        o == [_bitlen |-> bitlen, _bytelen |-> bytelen,
              _in_buf |-> b.val, _out_buf |-> b.val]
    IN  IF b.raised # "none" THEN [raised |-> b.raised, obj |-> o]
        ELSE IF init_value = <<>> THEN [raised |-> "none", obj |-> o]
        ELSE set_out_value(o, init_value[1])

\* the in_value and out_value properties
in_value(o) == from_bytes(o._in_buf)
out_value(o) == from_bytes(o._out_buf)

\* address of the bytes object that slot f's _in_buf refers to; __init__
\* allocates one per object and nothing reassigns _in_buf
InBufAddr(f) == f

\* a descriptor whose out_value points at the in buffer
ctype_swapped(f) ==
    [num_bits |-> fields[f]._bitlen, out_value |-> fields[f]._in_buf,
     in_value |-> InBufAddr(f), check_value |-> NULL, check_mask |-> NULL]

\* a descriptor whose in_value points at a private copy of the buffer
ctype_copy(f) ==
    [num_bits |-> fields[f]._bitlen, out_value |-> fields[f]._out_buf,
     in_value |-> NULL, check_value |-> NULL, check_mask |-> NULL]

\* the ctype property of the object in slot f: a CScanField.  out_value is
\* given by the bytes it points at (the library only reads them, during the
\* call), in_value by the address it holds (the library writes through it).
ctype(f) ==
    [num_bits |-> fields[f]._bitlen, out_value |-> fields[f]._out_buf,
     in_value |-> InBufAddr(f), check_value |-> NULL, check_mask |-> NULL]

(***************************************************************************)
(* The ctypes boundary.                                                    *)
(***************************************************************************)

\* str.encode("ascii")
encode_ascii(s) ==
    IF \E i \in 1..Len(s) : s[i] > 127
    THEN [raised |-> "UnicodeEncodeError", val |-> <<>>]
    ELSE [raised |-> "none", val |-> s]

\* a bytes object passed as c_char_p: the callee reads up to the first NUL
RECURSIVE c_char_p(_)
c_char_p(b) ==
    IF b = <<>> \/ b[1] = 0 THEN <<>> ELSE <<b[1]>> \o c_char_p(Tail(b))

\* b"script "
ScriptPrefix == <<115, 99, 114, 105, 112, 116, 32>>

(***************************************************************************)
(* The native library, as the wrapper is entitled to assume it: a session  *)
(* with a TAP table, a pending sequence of scans, and a blocking execute.  *)
(***************************************************************************)

\* TAPs the configuration scripts declare: C name -> jtag_tap address
TapTable == (<<116>> :> 1) @@ (<<116, 120>> :> 2)

\* create_command_handler(None): a fresh session
lib_create ==
    [session |-> "created", pending |-> <<>>, deinits |-> 0]

\* openocd_init(ctx, argc, argv) returning rc
lib_openocd_init(l, rc) ==
    [l EXCEPT !.session = IF rc = 0 THEN "initialized" ELSE "init_failed"]

\* jtag_tap_by_string(name): the TAP of exactly that name, or NULL
lib_jtag_tap_by_string(l, cname) ==
    IF l.session = "initialized" /\ cname \in DOMAIN TapTable
    THEN TapTable[cname] ELSE NULL

\* jtag_add_ir_scan(tap, field, end_state): appends one IR scan
lib_jtag_add_ir_scan(l, tap, desc, end_state) ==
    [l EXCEPT !.pending = Append(@,
        [kind |-> "ir", tap |-> tap, descs |-> <<desc>>, end_state |-> end_state])]

\* jtag_add_dr_scan(tap, n, fields, end_state): appends one DR scan of the
\* first n descriptors
lib_jtag_add_dr_scan(l, tap, n, descs, end_state) ==
    [l EXCEPT !.pending = Append(@,
        [kind |-> "dr", tap |-> tap, descs |-> SubSeq(descs, 1, n),
         end_state |-> end_state])]

\* jtag_execute_queue(): clears the pending sequence whatever the outcome
\* (what the shifted scans store is in ExecuteQueue, with the caller's memory)
lib_jtag_execute_queue(l) ==
    [l EXCEPT !.pending = <<>>]

\* openocd_deinit(ctx)
lib_openocd_deinit(l) ==
    [l EXCEPT !.session = "closed", !.deinits = @ + 1]

\* the bytes the library stores through in_value for a scan that captured
\* the integer cap into an n-byte buffer, least significant byte first
lib_capture_bytes(cap, n) == [i \in 1..n |-> (cap \div Pow(256, i - 1)) % 256]

\* the addresses the executed scans of batch store through
lib_written(batch) ==
    {batch[i].descs[j].in_value : <<i, j>> \in
        {p \in (1..Len(batch)) \X (1..2) : p[2] <= Len(batch[p[1]].descs)}}

(***************************************************************************)
(* PyOpenOCD.  Every action is one call by the single-threaded caller.     *)
(***************************************************************************)

\* The outcome of a call: its arguments (arg), the exception it raised or
\* "none", the exception's argument (code), the pointer it returned (handle),
\* and whether close() had already been called when it began.
Result(op, arg, raised, code, handle) ==
    [op |-> op, arg |-> arg, raised |-> raised, code |-> code, handle |-> handle,
     afterClose |-> lib.deinits > 0]

\* a foreign call with its marshalled arguments and its return value
Call(fn, args, rv) == [fn |-> fn, args |-> args, rv |-> rv]

\* ScanField(bitlen, out_value) stored in the free slot f
NewScanField(f, bitlen, init_value) ==
    /\ f \notin DOMAIN fields
    /\ LET r == ScanField_init(bitlen, init_value)
       IN  /\ fields' = IF r.raised = "none" THEN fields @@ (f :> r.obj) ELSE fields
           /\ ret' = [Result("ScanField", <<f, bitlen>> \o init_value, r.raised, 0, NULL)
                         EXCEPT !.afterClose = FALSE]
    /\ ffi' = <<>>
    /\ UNCHANGED <<lib, enqueued, captured>>

\* fields[f].out_value = v
SetOutValue(f, v) ==
    /\ f \in DOMAIN fields
    /\ LET r == set_out_value(fields[f], v)
       IN  /\ fields' = [fields EXCEPT ![f] = r.obj]
           /\ ret' = [Result("out_value", <<f, v>>, r.raised, 0, NULL)
                         EXCEPT !.afterClose = FALSE]
    /\ ffi' = <<>>
    /\ UNCHANGED <<lib, enqueued, captured>>

\* the argv entry initialize builds for path p, as openocd_init reads it
script_arg(p) == c_char_p(ScriptPrefix \o p \o <<0>>)

\* initialize(scripts), openocd_init returning rc
Initialize(scripts, rc) ==
    LET enc == [i \in 1..Len(scripts) |-> encode_ascii(scripts[i])]
        bad == \E i \in 1..Len(scripts) : enc[i].raised # "none"
        argv == [i \in 1..Len(scripts) |-> script_arg(enc[i].val)]
    IN  /\ IF bad
           THEN /\ ret' = Result("initialize", scripts, "UnicodeEncodeError", 0, NULL)
                /\ ffi' = <<>>
                /\ lib' = lib
           ELSE /\ lib' = lib_openocd_init(lib, rc)
                /\ ffi' = <<Call("openocd_init", <<Len(argv), argv>>, rc)>>
                /\ ret' = IF rc # 0
                          THEN Result("initialize", scripts, "OpenOCDError", rc, NULL)
                          ELSE Result("initialize", scripts, "none", 0, NULL)
        /\ UNCHANGED <<fields, enqueued, captured>>

\* get_jtag_tap(name)
GetJtagTap(name) ==
    LET name_bin == encode_ascii(name)
        tap == lib_jtag_tap_by_string(lib, c_char_p(name_bin.val))
    IN  /\ IF name_bin.raised # "none"
           THEN /\ ret' = Result("get_jtag_tap", name, name_bin.raised, 0, NULL)
                /\ ffi' = <<>>
           ELSE /\ ffi' = <<Call("jtag_tap_by_string", <<c_char_p(name_bin.val)>>, tap)>>
                /\ ret' = IF tap = NULL
                          THEN Result("get_jtag_tap", name, "OpenOCDError", 0, NULL)
                          ELSE Result("get_jtag_tap", name, "none", 0, tap)
        /\ UNCHANGED <<fields, lib, enqueued, captured>>

\* a default end state of TAP_RESET
end_state_arg_reset(end_state) ==
    IF end_state = Omitted THEN TAP_RESET ELSE end_state

\* the value the end_state parameter is bound to: the keyword's default is
\* TAPState.TAP_IDLE
end_state_arg(end_state) ==
    IF end_state = Omitted THEN TAP_IDLE ELSE end_state

\* the contents of the out buffers of the objects in slots fs
OutBufs(fs) == [i \in 1..Len(fs) |-> fields[fs[i]]._out_buf]

\* add_irscan that returns without reaching the library
AddIrscan_nocall(tap, f, end_state) ==
    /\ f \in DOMAIN fields
    /\ Len(lib.pending) < MaxQueue
    /\ ffi' = <<>>
    /\ ret' = Result("add_irscan", <<f>>, "none", 0, NULL)
    /\ enqueued' = Append(enqueued,
            [kind |-> "ir", tap |-> tap, fields |-> <<f>>, end_state |-> end_state,
             outs |-> OutBufs(<<f>>)])
    /\ UNCHANGED <<fields, lib, captured>>

\* add_irscan(tap, field, end_state) with the object in slot f; end_state is
\* marshalled as c_uint, which leaves the values of TAPState unchanged
AddIrscan(tap, f, end_state) ==
    /\ f \in DOMAIN fields
    /\ Len(lib.pending) < MaxQueue
    /\ lib' = lib_jtag_add_ir_scan(lib, tap, ctype(f), end_state_arg(end_state))
    /\ ffi' = <<Call("jtag_add_ir_scan",
                     <<tap, ctype(f), end_state_arg(end_state)>>, 0)>>
    /\ ret' = Result("add_irscan", <<f>>, "none", 0, NULL)
    /\ enqueued' = Append(enqueued,
            [kind |-> "ir", tap |-> tap, fields |-> <<f>>, end_state |-> end_state,
             outs |-> OutBufs(<<f>>)])
    /\ UNCHANGED <<fields, captured>>

\* add_drscan(tap, *fs, end_state) with the objects in slots fs
AddDrscan(tap, fs, end_state) ==
    /\ \A i \in 1..Len(fs) : fs[i] \in DOMAIN fields
    /\ Len(lib.pending) < MaxQueue
    /\ LET ct_fields == [i \in 1..Len(fs) |-> ctype(fs[i])]
           field_arr == ct_fields
           state == end_state_arg(end_state)
       IN  /\ lib' = lib_jtag_add_dr_scan(lib, tap, Len(field_arr), field_arr, state)
           /\ ffi' = <<Call("jtag_add_dr_scan",
                            <<tap, Len(field_arr), field_arr, state>>, 0)>>
    /\ ret' = Result("add_drscan", fs, "none", 0, NULL)
    /\ enqueued' = Append(enqueued,
            [kind |-> "dr", tap |-> tap, fields |-> fs, end_state |-> end_state,
             outs |-> OutBufs(fs)])
    /\ UNCHANGED <<fields, captured>>

\* the slots the caller's scans 1..k refer to
Referenced(calls, k) ==
    {calls[i].fields[j] : <<i, j>> \in
        {p \in (1..k) \X (1..2) : p[1] <= Len(calls) /\ p[2] <= Len(calls[p[1]].fields)}}

\* what the caller asked for since the last execute_queue, scan by scan
Batch(calls) == [i \in 1..Len(calls) |-> <<calls[i].kind, calls[i].fields>>]

\* the library's part of execute_queue: the first k pending scans are
\* shifted (all of them when the status r is 0), each storing the captured
\* integer cap through its descriptors' in_value; the pending sequence is
\* cleared
ShiftPending(r, k, cap) ==
    /\ k \in 0..Len(lib.pending)
    /\ r = 0 => k = Len(lib.pending)
    /\ lib' = lib_jtag_execute_queue(lib)
    /\ LET batch == SubSeq(lib.pending, 1, k)
       IN  fields' = [f \in DOMAIN fields |->
                IF InBufAddr(f) \in lib_written(batch)
                THEN [fields[f] EXCEPT
                        !._in_buf = lib_capture_bytes(cap, fields[f]._bytelen)]
                ELSE fields[f]]
    /\ captured' = [f \in FieldIds |->
            IF f \in Referenced(enqueued, k)
            THEN (IF fields[f]._bytelen >= 4 THEN cap
                  ELSE cap % Pow(256, fields[f]._bytelen))
            ELSE captured[f]]
    /\ enqueued' = <<>>

\* execute_queue that does not look at the status
ExecuteQueue_unchecked(r, k, cap) ==
    /\ ShiftPending(r, k, cap)
    /\ ffi' = <<Call("jtag_execute_queue", <<>>, r)>>
    /\ ret' = Result("execute_queue", Batch(enqueued), "none", 0, NULL)

\* execute_queue that calls jtag_execute_queue a second time after a failure
ExecuteQueue_retry(r, k, cap) ==
    /\ ShiftPending(r, k, cap)
    /\ ffi' = IF r # 0
              THEN <<Call("jtag_execute_queue", <<>>, r),
                     Call("jtag_execute_queue", <<>>, r)>>
              ELSE <<Call("jtag_execute_queue", <<>>, r)>>
    /\ ret' = IF r # 0
              THEN Result("execute_queue", Batch(enqueued), "OpenOCDError", r, NULL)
              ELSE Result("execute_queue", Batch(enqueued), "none", 0, NULL)

\* execute_queue(): jtag_execute_queue returns r
ExecuteQueue(r, k, cap) ==
    /\ ShiftPending(r, k, cap)
    /\ ffi' = <<Call("jtag_execute_queue", <<>>, r)>>
    /\ ret' = IF r # 0
              THEN Result("execute_queue", Batch(enqueued), "OpenOCDError", r, NULL)
              ELSE Result("execute_queue", Batch(enqueued), "none", 0, NULL)

\* close()
Close ==
    /\ lib.deinits < MaxCloses
    /\ lib' = lib_openocd_deinit(lib)
    /\ ffi' = <<Call("openocd_deinit", <<"ctx">>, 0)>>
    /\ ret' = Result("close", <<>>, "none", 0, NULL)
    /\ UNCHANGED <<fields, enqueued, captured>>

(***************************************************************************)
(* Specifications.                                                         *)
(***************************************************************************)

Names == {<<116>>, <<116, 120>>, <<120>>, <<116, 0>>, <<116, 0, 120>>, <<233>>}
Paths == {<<97>>, <<98>>, <<233>>}
ScriptLists == {<<>>} \cup {<<p>> : p \in Paths} \cup {<<p, q>> : p, q \in Paths}
Statuses == {0, -4}
Captures == {305419896, 5}
TapArgs == {1}
EndStates == {TAP_IDLE, TAP_RESET}
DrFields == {<<>>} \cup {<<f>> : f \in FieldIds} \cup {<<1, 2>>, <<2, 1>>}

\* PyOpenOCD(lib_path): the library loaded, a session created, no fields yet
Init ==
    /\ fields = <<>>
    /\ lib = lib_create
    /\ ret = [op |-> "PyOpenOCD", arg |-> <<>>, raised |-> "none", code |-> 0,
              handle |-> NULL, afterClose |-> FALSE]
    /\ ffi = <<Call("create_command_handler", <<NULL>>, "ctx")>>
    /\ enqueued = <<>>
    /\ captured = [f \in FieldIds |-> NoCapture]

\* The scan queue: the caller of main(), past a successful initialize, with
\* its two fields ScanField(4, 0xE) and ScanField(32) and, as in main(), the
\* default end state.
InitQueue ==
    /\ fields = <<>>
    /\ lib = lib_openocd_init(lib_create, 0)
    /\ ret = [op |-> "initialize", arg |-> <<>>, raised |-> "none", code |-> 0,
              handle |-> NULL, afterClose |-> FALSE]
    /\ ffi = <<Call("openocd_init", <<0, <<>>>>, 0)>>
    /\ enqueued = <<>>
    /\ captured = [f \in FieldIds |-> NoCapture]

Next ==
    \/ NewScanField(1, 4, <<14>>)
    \/ NewScanField(2, 32, <<>>)
    \/ \E f \in FieldIds, v \in {31} : SetOutValue(f, v)
    \/ \E t \in TapArgs, f \in FieldIds : AddIrscan(t, f, TAP_IDLE)
    \/ \E t \in TapArgs, fs \in DrFields : AddDrscan(t, fs, TAP_IDLE)
    \/ \E r \in Statuses, k \in 0..MaxQueue, c \in Captures : ExecuteQueue(r, k, c)

Spec == InitQueue /\ [][Next]_vars

\* The session life cycle, with the one field ScanField(4, 0xE) to scan.
InitSession ==
    /\ Init!2 /\ Init!3 /\ Init!4 /\ Init!5 /\ Init!6
    /\ fields = (1 :> ScanField_init(4, <<14>>).obj)

NextSession ==
    \/ \E s \in ScriptLists, rc \in Statuses : Initialize(s, rc)
    \/ \E n \in Names : GetJtagTap(n)
    \/ \E t \in TapArgs, e \in EndStates : AddIrscan(t, 1, e)
    \/ \E t \in TapArgs, fs \in {<<>>, <<1>>}, e \in EndStates : AddDrscan(t, fs, e)
    \/ \E r \in Statuses, k \in 0..MaxQueue, c \in Captures : ExecuteQueue(r, k, c)
    \/ Close

SpecSession == InitSession /\ [][NextSession]_vars

\* The ScanField value container alone: every width up to MaxBits and the
\* non-positive widths; for a width b every value that fits b bits, the
\* first that does not, and the last and first around the byte capacity.
BitLens == (0 - MaxBits)..MaxBits
Values(b) ==
    LET cap == Pow(256, div_round_up(Max(b, 0), 8))
    IN  (0 - 1)..Pow(2, b) \cup {cap - 1, cap}

NextField ==
    \/ \E b \in BitLens : \E v \in {<<>>} \cup {<<x>> : x \in Values(b)} :
            NewScanField(1, b, v)
    \/ \E v \in Values(IF 1 \in DOMAIN fields THEN fields[1]._bitlen ELSE 0) :
            SetOutValue(1, v)

SpecField == Init /\ [][NextField]_vars

\* The end-state specification: one 4-bit field, scans enqueued with every
\* member of TAPState as end state or with the keyword left out.
EndStateArgs == TAPState \cup {Omitted}

InitEndState ==
    /\ InitQueue!2 /\ InitQueue!3 /\ InitQueue!4 /\ InitQueue!5 /\ InitQueue!6
    /\ fields = (1 :> ScanField_init(4, <<14>>).obj)

NextEndState ==
    \/ \E t \in TapArgs, e \in EndStateArgs : AddIrscan(t, 1, e)
    \/ \E t \in TapArgs, e \in EndStateArgs : AddDrscan(t, <<1>>, e)
    \/ \E k \in 0..MaxQueue, c \in Captures : ExecuteQueue(0, k, c)

SpecEndState == InitEndState /\ [][NextEndState]_vars

(***************************************************************************)
(* Properties.                                                             *)
(***************************************************************************)

\* The design's error kinds of the session layer (ExecutionFailed,
\* TapNotFound, InvalidState, ...) are all raised as the module's one
\* exception class; InvalidArgument may also be Python's ValueError.
ModuleError == "OpenOCDError"
ArgumentErrors == {"OpenOCDError", "ValueError"}

\* whether the pending scan e of the library is the caller's scan c: same
\* kind, TAP and end state, and descriptor j is that of c's j-th field
SameScan(e, c) ==
    /\ e.kind = c.kind /\ e.tap = c.tap /\ e.end_state = c.end_state
    /\ Len(e.descs) = Len(c.fields)
    /\ \A j \in 1..Len(c.fields) :
          /\ e.descs[j].in_value = InBufAddr(c.fields[j])
          /\ e.descs[j].num_bits = fields[c.fields[j]]._bitlen

\* C1: the library's pending sequence is, at every moment, exactly the
\* add_irscan/add_drscan calls made since the last execute_queue, in call
\* order, none dropped, duplicated or reordered; and when execute_queue has
\* returned the pending sequence is empty.
C1_EnqueueOrderKept ==
    /\ Len(lib.pending) = Len(enqueued)
    /\ \A i \in 1..Len(enqueued) : SameScan(lib.pending[i], enqueued[i])
    /\ ret.op = "execute_queue" => lib.pending = <<>>

\* an IR scan of field 1 then a DR scan of field 2 were enqueued and executed
C1_Witness ==
    /\ ret.op = "execute_queue"
    /\ ret.arg = << <<"ir", <<1>>>>, <<"dr", <<2>>>> >>
    /\ lib.pending = <<>>

\* C2: when jtag_execute_queue returns a non-zero status, execute_queue
\* raises the module's error (ExecutionFailed) carrying that status, and the
\* pending sequence has length 0 afterwards.
C2_FailedExecuteRaises ==
    (ret.op = "execute_queue" /\ ffi[1].rv # 0) =>
        /\ ret.raised = ModuleError
        /\ ret.code = ffi[1].rv
        /\ Len(lib.pending) = 0

\* a batch of two scans was executed and the library returned -4
C2_Witness ==
    /\ ret.op = "execute_queue"
    /\ Len(ret.arg) = 2
    /\ ffi[1].rv = 0 - 4
    /\ ret.raised = "OpenOCDError"

\* C3: after an execute_queue that succeeded, every field an executed scan
\* referred to reads back, through in_value, the integer the library
\* captured for it in that round trip.
C3_InValueIsCaptured ==
    (ret.op = "execute_queue" /\ ret.raised = "none") =>
        \A i \in 1..Len(ret.arg) : \A j \in 1..Len(ret.arg[i][2]) :
            LET f == ret.arg[i][2][j]
            IN  /\ captured[f] # NoCapture
                /\ in_value(fields[f]) = captured[f]

\* the scenario of main(): IR scan of the 4-bit field, DR scan of the 32-bit
\* field, the library stores 0x12345678, in_value reads 0x12345678
C3_Witness ==
    /\ ret.op = "execute_queue" /\ ret.raised = "none"
    /\ ret.arg = << <<"ir", <<1>>>>, <<"dr", <<2>>>> >>
    /\ fields[2]._bitlen = 32
    /\ fields[2]._in_buf = <<120, 86, 52, 18>>
    /\ in_value(fields[2]) = 305419896

\* C4: for every bit length > 0 and every v with 0 <= v < 2^bit_length,
\* storing v as the out value (by the setter or by the constructor) does not
\* raise and the out_value property then returns exactly v.
C4_OutValueRoundTrip ==
    /\ ret.op = "out_value" =>
          LET o == fields[ret.arg[1]]
              v == ret.arg[2]
          IN  (o._bitlen > 0 /\ 0 <= v /\ v < Pow(2, o._bitlen)) =>
                  ret.raised = "none" /\ out_value(o) = v
    /\ (ret.op = "ScanField" /\ Len(ret.arg) = 3) =>
          LET f == ret.arg[1]
              b == ret.arg[2]
              v == ret.arg[3]
          IN  (b > 0 /\ 0 <= v /\ v < Pow(2, b)) =>
                  /\ ret.raised = "none"
                  /\ f \in DOMAIN fields
                  /\ out_value(fields[f]) = v

\* the setter stored 300, which needs both bytes of a 9-bit field
C4_Witness ==
    /\ ret.op = "out_value" /\ ret.arg = <<1, 300>> /\ ret.raised = "none"
    /\ fields[1]._bitlen = 9
    /\ fields[1]._out_buf = <<44, 1>>
    /\ out_value(fields[1]) = 300

\* C5: a second close() fails (InvalidState) and does not call
\* openocd_deinit again; the session is released at most once.
C5_SingleTeardown ==
    /\ lib.deinits <= 1
    /\ (ret.op = "close" /\ ret.afterClose) =>
          ret.raised = ModuleError /\ ffi = <<>>

\* C6: after close(), initialize, get_jtag_tap, add_irscan, add_drscan and
\* execute_queue fail (InvalidState) and make no foreign call.
C6_NoUseAfterTeardown ==
    (ret.afterClose /\ ret.op \in {"initialize", "get_jtag_tap", "add_irscan",
                                   "add_drscan", "execute_queue"}) =>
        ret.raised = ModuleError /\ ffi = <<>>

\* C7: get_jtag_tap(name) returns a handle only when the library's TAP table
\* has a TAP of exactly that name, and then that TAP's handle; when the
\* library returns NULL the call raises and returns no handle.
C7_ExactNameOrFailure ==
    ret.op = "get_jtag_tap" =>
        /\ ret.raised = "none" =>
              /\ ret.arg \in DOMAIN TapTable
              /\ ret.handle = TapTable[ret.arg]
        /\ (ffi # <<>> /\ ffi[1].rv = NULL) =>
              ret.raised = ModuleError /\ ret.handle = NULL

\* C8: ScanField(bitlen) with bitlen <= 0 fails (InvalidArgument) and leaves
\* no object, and every ScanField that exists has bitlen >= 1.
C8_PositiveBitLength ==
    /\ \A f \in DOMAIN fields : fields[f]._bitlen >= 1
    /\ (ret.op = "ScanField" /\ ret.arg[2] <= 0) =>
          ret.raised \in ArgumentErrors /\ ret.arg[1] \notin DOMAIN fields

\* C9: the out_value setter with v >= 2^bitlen does not raise and leaves
\* out_value == v mod 2^bitlen.
C9_SetterTruncates ==
    ret.op = "out_value" =>
        LET o == fields[ret.arg[1]]
            v == ret.arg[2]
        IN  (o._bitlen > 0 /\ v >= Pow(2, o._bitlen)) =>
                ret.raised = "none" /\ out_value(o) = v % Pow(2, o._bitlen)

\* ceil(bitlen / 8) for the widths a field can have
CeilDiv8(b) == CHOOSE n \in 0..Max(b, 0) : 8 * n >= b /\ (n = 0 \/ 8 * (n - 1) < b)

\* C10: in every reachable state of a ScanField, _out_buf and _in_buf are
\* each ceil(bitlen / 8) bytes long and the bits of _out_buf at positions
\* >= bitlen are zero.
C10_BufferShape ==
    \A f \in DOMAIN fields :
        LET o == fields[f]
            n == CeilDiv8(o._bitlen)
        IN  /\ Len(o._out_buf) = n
            /\ Len(o._in_buf) = n
            /\ n > 0 => o._out_buf[n] < Pow(2, o._bitlen - 8 * (n - 1))

\* the add_irscan/add_drscan calls, pending or executed
EnqueueOps == {"add_irscan", "add_drscan"}

\* C11 as claimed: in_value is 0 after creation, and _in_buf changes only in
\* an execute_queue that succeeded.
C11_InBufOnlyBySuccess ==
    [][\A f \in DOMAIN fields' :
          IF f \in DOMAIN fields
          THEN fields'[f]._in_buf # fields[f]._in_buf =>
                  ret'.op = "execute_queue" /\ ret'.raised = "none"
          ELSE in_value(fields'[f]) = 0]_vars

\* C11 as amended: in_value is 0 from creation until an execute_queue, be it
\* successful or failed, whose shifted scans included the field; creation,
\* the out_value setter, add_irscan and add_drscan never change _in_buf.
C11_InValueZeroUntilShifted ==
    /\ [](\A f \in DOMAIN fields :
            captured[f] = NoCapture => in_value(fields[f]) = 0)
    /\ [][\A f \in DOMAIN fields' :
            IF f \in DOMAIN fields
            THEN fields'[f]._in_buf # fields[f]._in_buf =>
                    ret'.op = "execute_queue" /\ f \in Referenced(enqueued, Len(enqueued))
            ELSE in_value(fields'[f]) = 0]_vars

\* field 1, created with 0xE, set to 31 and enqueued in a DR scan, not yet
\* executed, still reads 0
C11_Witness ==
    /\ ret.op = "add_drscan" /\ ret.arg = <<1>>
    /\ captured[1] = NoCapture
    /\ fields[1]._out_buf = <<31>>
    /\ in_value(fields[1]) = 0

\* C12: initialize(scripts) makes a single openocd_init call whose argument
\* vector has one entry per path, the entry for the i-th path being
\* "script " followed by that path, in the order of the input.
C12_ScriptArgv ==
    ret.op = "initialize" =>
        /\ Len(ffi) = 1
        /\ ffi[1].fn = "openocd_init"
        /\ ffi[1].args[1] = Len(ret.arg)
        /\ Len(ffi[1].args[2]) = Len(ret.arg)
        /\ \A i \in 1..Len(ret.arg) : ffi[1].args[2][i] = ScriptPrefix \o ret.arg[i]

\* C13: when openocd_init returns a non-zero status, initialize raises the
\* module's error carrying that status, and until an initialize succeeds
\* every get_jtag_tap, add_irscan, add_drscan and execute_queue is refused.
C13_FailedInitBlocks ==
    /\ (ret.op = "initialize" /\ ffi # <<>> /\ ffi[1].rv # 0) =>
            ret.raised = ModuleError /\ ret.code = ffi[1].rv
    /\ (lib.session = "init_failed"
            /\ ret.op \in {"get_jtag_tap", "execute_queue"} \cup EnqueueOps) =>
            ret.raised # "none"

\* C14: add_drscan never submits a DR scan without fields; for a non-empty
\* sequence of fields jtag_add_dr_scan receives their number and, in the
\* caller's order, one descriptor per field whose num_bits is the field's
\* bitlen.
C14_DrScanNonEmpty ==
    /\ \A i \in 1..Len(lib.pending) :
          lib.pending[i].kind = "dr" => Len(lib.pending[i].descs) >= 1
    /\ ret.op = "add_drscan" =>
          /\ ret.arg # <<>>
          /\ Len(ffi) = 1
          /\ ffi[1].fn = "jtag_add_dr_scan"
          /\ ffi[1].args[2] = Len(ret.arg)
          /\ Len(ffi[1].args[3]) = Len(ret.arg)
          /\ \A j \in 1..Len(ret.arg) :
                /\ ffi[1].args[3][j].num_bits = fields[ret.arg[j]]._bitlen
                /\ ffi[1].args[3][j].in_value = InBufAddr(ret.arg[j])

\* C15: for each of the 16 TAP controller states, add_irscan and add_drscan
\* hand the library exactly the end state the caller asked for, and TAP_IDLE
\* when the caller named none.
C15_EndStatePassedThrough ==
    /\ Len(lib.pending) = Len(enqueued)
    /\ \A i \in 1..Len(enqueued) :
          /\ enqueued[i].end_state \in TAPState =>
                lib.pending[i].end_state = enqueued[i].end_state
          /\ enqueued[i].end_state = Omitted =>
                lib.pending[i].end_state = TAP_IDLE
    /\ ret.op \in EnqueueOps =>
          /\ Len(ffi) = 1
          /\ ffi[1].args[Len(ffi[1].args)] = lib.pending[Len(lib.pending)].end_state

\* an IR scan asked to end in TAP_IRPAUSE followed by a DR scan that names
\* no end state
C15_Witness ==
    /\ Len(enqueued) = MaxQueue
    /\ enqueued[1].kind = "ir" /\ enqueued[1].end_state = TAP_IRPAUSE
    /\ lib.pending[1].end_state = TAP_IRPAUSE
    /\ enqueued[MaxQueue].kind = "dr" /\ enqueued[MaxQueue].end_state = Omitted
    /\ lib.pending[MaxQueue].end_state = TAP_IDLE

\* the library functions that append to the pending sequence
SubmitCalls == {"jtag_add_ir_scan", "jtag_add_dr_scan"}

\* C16: every execute_queue calls jtag_execute_queue exactly once, whether
\* it succeeds or fails, and nothing else: it is not called again after a
\* failure, and a scan is submitted only by an add_irscan or add_drscan of
\* the caller, once per call.
C16_ExecuteOnce ==
    /\ ret.op = "execute_queue" =>
          /\ Len(ffi) = 1
          /\ ffi[1].fn = "jtag_execute_queue"
          /\ ret.raised = (IF ffi[1].rv = 0 THEN "none" ELSE ModuleError)
    /\ \A i \in 1..Len(ffi) :
          /\ ffi[i].fn = "jtag_execute_queue" => ret.op = "execute_queue"
          /\ ffi[i].fn \in SubmitCalls => ret.op \in EnqueueOps /\ Len(ffi) = 1

\* a failed execute_queue over a batch of MaxQueue scans, none of them
\* shifted: one library call
C16_Witness ==
    /\ ret.op = "execute_queue" /\ ret.raised = ModuleError
    /\ Len(ret.arg) = MaxQueue
    /\ Len(ffi) = 1 /\ ffi[1].rv # 0
    /\ \A f \in FieldIds : captured[f] = NoCapture

\* C17: the bitlen of a ScanField never changes after its creation; the
\* out_value setter changes nothing but the _out_buf of its own field; and
\* add_irscan / add_drscan leave every field as it is while making exactly
\* one submit call and no jtag_execute_queue call.
C17_FrameEffects ==
    [][/\ ret'.op # "ScanField" =>
            /\ DOMAIN fields' = DOMAIN fields
            /\ \A f \in DOMAIN fields :
                  /\ fields'[f]._bitlen = fields[f]._bitlen
                  /\ fields'[f]._bytelen = fields[f]._bytelen
       /\ ret'.op = "out_value" =>
            /\ \A f \in DOMAIN fields :
                  /\ fields'[f]._in_buf = fields[f]._in_buf
                  /\ f # ret'.arg[1] => fields'[f] = fields[f]
            /\ lib' = lib /\ ffi' = <<>>
       /\ ret'.op \in EnqueueOps =>
            /\ fields' = fields
            /\ Len(ffi') = 1
            /\ ffi'[1].fn = (IF ret'.op = "add_irscan"
                             THEN "jtag_add_ir_scan" ELSE "jtag_add_dr_scan")]_vars

\* the 32-bit field, holding a captured 0x12345678, has its out_value set to
\* 31: the capture and the width are still there
C17_Witness ==
    /\ ret.op = "out_value" /\ ret.arg[1] \in DOMAIN fields /\ ret.raised = "none"
    /\ fields[ret.arg[1]]._bitlen = 32
    /\ out_value(fields[ret.arg[1]]) = 31
    /\ in_value(fields[ret.arg[1]]) = 305419896

\* the descriptor of the object in slot f whose out bytes are out
Descriptor(f, out) ==
    [num_bits |-> fields[f]._bitlen, out_value |-> out,
     in_value |-> InBufAddr(f), check_value |-> NULL, check_mask |-> NULL]

\* the descriptors a submit call passed: the one of jtag_add_ir_scan, the
\* array of jtag_add_dr_scan
Submitted(call) ==
    IF call.fn = "jtag_add_ir_scan" THEN <<call.args[2]>> ELSE call.args[3]

\* C18: the descriptor submitted for a field has num_bits equal to the
\* field's bitlen, out_value equal to the contents of its _out_buf when
\* add_irscan / add_drscan was called, in_value pointing at the field's own
\* _in_buf and no check_value or check_mask; an out_value set afterwards and
\* before execute_queue leaves the descriptor of the pending scan as it was.
C18_DescriptorAsEnqueued ==
    /\ Len(lib.pending) = Len(enqueued)
    /\ \A i \in 1..Len(enqueued) :
          /\ Len(lib.pending[i].descs) = Len(enqueued[i].fields)
          /\ \A j \in 1..Len(enqueued[i].fields) :
                lib.pending[i].descs[j] =
                    Descriptor(enqueued[i].fields[j], enqueued[i].outs[j])
    /\ ret.op \in EnqueueOps =>
          /\ Len(ffi) = 1
          /\ Len(Submitted(ffi[1])) = Len(ret.arg)
          /\ \A j \in 1..Len(ret.arg) :
                Submitted(ffi[1])[j] =
                    Descriptor(ret.arg[j], fields[ret.arg[j]]._out_buf)

\* field 1 was enqueued holding 0xE and then set to 31: the pending
\* descriptor still carries 0xE
C18_Witness ==
    /\ ret.op = "out_value" /\ ret.raised = "none" /\ ret.arg = <<1, 31>>
    /\ Len(lib.pending) >= 1
    /\ enqueued[1].fields = <<1>>
    /\ lib.pending[1].descs[1].out_value = <<14>>
    /\ fields[1]._out_buf = <<31>>

====
